---- MODULE Spec2Model ----
(***************************************************************************)
(* Model of the logical-plan core of rust-dataframe:                       *)
(*   src/src/operation.rs      scalar transforms Add, Cast, Subtract       *)
(*   src/src/io/datasource.rs  Reader::get_dataset and CsvDataSource       *)
(* Each transform is a pure function of (inputs, name, to_type); it is     *)
(* modelled as an operator and applied by the actions below.               *)
(***************************************************************************)
EXTENDS Integers, Sequences, FiniteSets, TLC

VARIABLES
    inputs,     \* transform argument: Vec<Column>
    name,       \* transform argument: Option<String>
    to_type,    \* transform argument: Option<DataType>
    op,         \* which transform was called ("none" before the call)
    result,     \* Result<Vec<Operation>, ArrowError> of the call
    graph,      \* operation graph accumulated by a caller (sequence of Operation)
    last,       \* outcome of the caller's last transform call on the graph
    source,     \* Reader.source : DataSourceType
    backend,    \* what the external reader library finds behind the source
    outcome,    \* outcome of Reader::get_dataset
    ds,         \* CsvDataSource fields that hold query state
    call,       \* last DataSource method called on the CsvDataSource
    callOutcome \* how that call ended

vars == <<inputs, name, to_type, op, result, graph, last,
          source, backend, outcome, ds, call, callOutcome>>

transformVars == <<inputs, name, to_type, op, result>>
graphVars     == <<graph, last>>
readerVars    == <<source, backend, outcome>>
csvVars       == <<ds, call, callOutcome>>

(***************************************************************************)
(* Bounds of the model                                                     *)
(***************************************************************************)
MaxInputs == 3      \* longest input vector handed to a transform
NumTypes  == 2      \* how many arrow DataTypes the columns range over
MaxNodes  == 2      \* longest operation graph a caller accumulates
MaxLimit  == 2      \* largest row limit pushed to the csv source

TypeNames == <<"Int64", "Int32", "Float64", "Utf8", "Boolean">>
DataType  == {TypeNames[i] : i \in 1..NumTypes}
ColumnNames == {"a", "b"}
OutputNames == {"out"}

(***************************************************************************)
(* Option and Result                                                       *)
(***************************************************************************)
None      == <<>>
Some(v)   == <<v>>
IsSome(o) == o # <<>>
Unwrap(o) == o[1]
\* Option::unwrap_or
UnwrapOr(o, d) == IF o # <<>> THEN o[1] ELSE d
Option(S) == {None} \cup {Some(v) : v \in S}

Ok(v)  == [ok |-> TRUE, value |-> v]
Err(e) == [ok |-> FALSE, error |-> e]

\* ArrowError variants used by operation.rs
ComputeError(msg)         == [kind |-> "ComputeError", msg |-> msg]
InvalidArgumentError(msg) == [kind |-> "InvalidArgumentError", msg |-> msg]

(***************************************************************************)
(* Column & type model (crate::expression)                                 *)
(***************************************************************************)
Scalar(t) == [tag |-> "Scalar", dtype |-> t]
Array(t)  == [tag |-> "Array", dtype |-> t]
ColumnType == {Scalar(t) : t \in DataType} \cup {Array(t) : t \in DataType}
Column == [name : ColumnNames, column_type : ColumnType]

\* impl From<DataType> for ColumnType, used as `a_type.clone().into()`
Into(t) == Scalar(t)

ExprScalar(e) == <<"Scalar", e>>
ExprCast      == <<"Cast">>

MkColumn(n, ct) == [name |-> n, column_type |-> ct]
MkOperation(n, ins, out, e) ==
    [name |-> n, inputs |-> ins, output |-> out, expression |-> e]

\* format!("{}({}, {})", op, a, b)
FormatBinary(o, a, b) == o \o "(" \o a \o ", " \o b \o ")"
\* format!("{}({} as datatype)", op, a)
FormatCast(o, a) == o \o "(" \o a \o " as datatype)"

(***************************************************************************)
(* CastOperation                                                           *)
(***************************************************************************)
CastName == "cast"

\* CastTransform with the shape test moved ahead of the target-type test
CastTransformShapeFirst(ins, nm, tt) ==
    IF Len(ins) # 1
    THEN Err(ComputeError("Cast operation expects 1 input"))
    ELSE LET a == ins[1] IN
         IF a.column_type.tag = "Array"
         THEN Err(ComputeError(
                  "Cast operation is currently only supported on scalar columns"))
         ELSE IF ~IsSome(tt)
              THEN Err(InvalidArgumentError("Cast requires a target output datatype"))
              ELSE Ok(<<MkOperation(
                          CastName,
                          ins,
                          MkColumn(UnwrapOr(nm, FormatCast(CastName, a.name)),
                                   Scalar(Unwrap(tt))),
                          ExprCast)>>)

\* CastTransform without the shape test
CastTransformNoShapeCheck(ins, nm, tt) ==
    IF Len(ins) # 1
    THEN Err(ComputeError("Cast operation expects 1 input"))
    ELSE LET a == ins[1] IN
         IF ~IsSome(tt)
         THEN Err(InvalidArgumentError("Cast requires a target output datatype"))
         ELSE Ok(<<MkOperation(
                     CastName,
                     ins,
                     MkColumn(UnwrapOr(nm, FormatCast(CastName, a.name)),
                              Scalar(Unwrap(tt))),
                     ExprCast)>>)

CastTransform(ins, nm, tt) ==
    IF Len(ins) # 1
    THEN Err(ComputeError("Cast operation expects 1 input"))
    ELSE LET a == ins[1] IN
         IF ~IsSome(tt)
         THEN Err(InvalidArgumentError("Cast requires a target output datatype"))
         ELSE IF a.column_type.tag = "Array"
              THEN Err(ComputeError(
                       "Cast operation is currently only supported on scalar columns"))
              ELSE Ok(<<MkOperation(
                          CastName,
                          ins,
                          MkColumn(UnwrapOr(nm, FormatCast(CastName, a.name)),
                                   Scalar(Unwrap(tt))),
                          ExprCast)>>)

(***************************************************************************)
(* AddOperation                                                            *)
(***************************************************************************)
AddName == "add"

\* AddTransform whose sum node keeps the uncast second input
AddTransformUncastInput(ins, nm, tt) ==
    IF Len(ins) # 2
    THEN Err(ComputeError("Add operation expects 2 inputs"))
    ELSE LET a == ins[1]
             b == ins[2]
         IN
         IF a.column_type.tag = "Array" \/ b.column_type.tag = "Array"
         THEN Err(ComputeError("Add operation only works on scalar columns"))
         ELSE LET a_type == a.column_type.dtype
                  b_type == b.column_type.dtype
              IN
              IF a_type # b_type
              THEN LET cast_res == CastTransform(<<b>>, Some(b.name), Some(a_type))
                   IN
                   IF ~cast_res.ok
                   THEN cast_res
                   ELSE LET cast_op == Head(cast_res.value) IN
                        Ok(<<cast_op,
                             MkOperation(
                                 AddName,
                                 ins,
                                 MkColumn(UnwrapOr(nm,
                                              FormatBinary(AddName, a.name, b.name)),
                                          Into(a_type)),
                                 ExprScalar("Add"))>>)
              ELSE Ok(<<MkOperation(
                            AddName,
                            ins,
                            MkColumn(UnwrapOr(nm,
                                         FormatBinary(AddName, a.name, b.name)),
                                     Into(a_type)),
                            ExprScalar("Add"))>>)

\* AddTransform that tests only the first input for Array
AddTransformFirstArrayOnly(ins, nm, tt) ==
    IF Len(ins) # 2
    THEN Err(ComputeError("Add operation expects 2 inputs"))
    ELSE LET a == ins[1]
             b == ins[2]
         IN
         IF a.column_type.tag = "Array"
         THEN Err(ComputeError("Add operation only works on scalar columns"))
         ELSE LET a_type == a.column_type.dtype
                  b_type == b.column_type.dtype
              IN
              IF a_type # b_type
              THEN LET cast_res == CastTransform(<<b>>, Some(b.name), Some(a_type))
                   IN
                   IF ~cast_res.ok
                   THEN cast_res
                   ELSE LET cast_op == Head(cast_res.value) IN
                        Ok(<<cast_op,
                             MkOperation(
                                 AddName,
                                 <<a, cast_op.output>>,
                                 MkColumn(UnwrapOr(nm,
                                              FormatBinary(AddName, a.name, b.name)),
                                          Into(a_type)),
                                 ExprScalar("Add"))>>)
              ELSE Ok(<<MkOperation(
                            AddName,
                            ins,
                            MkColumn(UnwrapOr(nm,
                                         FormatBinary(AddName, a.name, b.name)),
                                     Into(a_type)),
                            ExprScalar("Add"))>>)

\* AddTransform that leaves the cast output name to the Cast default
AddTransformDefaultCastName(ins, nm, tt) ==
    IF Len(ins) # 2
    THEN Err(ComputeError("Add operation expects 2 inputs"))
    ELSE LET a == ins[1]
             b == ins[2]
         IN
         IF a.column_type.tag = "Array" \/ b.column_type.tag = "Array"
         THEN Err(ComputeError("Add operation only works on scalar columns"))
         ELSE LET a_type == a.column_type.dtype
                  b_type == b.column_type.dtype
              IN
              IF a_type # b_type
              THEN LET cast_res == CastTransform(<<b>>, None, Some(a_type))
                   IN
                   IF ~cast_res.ok
                   THEN cast_res
                   ELSE LET cast_op == Head(cast_res.value) IN
                        Ok(<<cast_op,
                             MkOperation(
                                 AddName,
                                 <<a, cast_op.output>>,
                                 MkColumn(UnwrapOr(nm,
                                              FormatBinary(AddName, a.name, b.name)),
                                          Into(a_type)),
                                 ExprScalar("Add"))>>)
              ELSE Ok(<<MkOperation(
                            AddName,
                            ins,
                            MkColumn(UnwrapOr(nm,
                                         FormatBinary(AddName, a.name, b.name)),
                                     Into(a_type)),
                            ExprScalar("Add"))>>)

AddTransform(ins, nm, tt) ==
    IF Len(ins) # 2
    THEN Err(ComputeError("Add operation expects 2 inputs"))
    ELSE LET a == ins[1]
             b == ins[2]
         IN
         IF a.column_type.tag = "Array" \/ b.column_type.tag = "Array"
         THEN Err(ComputeError("Add operation only works on scalar columns"))
         ELSE LET a_type == a.column_type.dtype
                  b_type == b.column_type.dtype
              IN
              IF a_type # b_type
              THEN LET cast_res == CastTransform(<<b>>, Some(b.name), Some(a_type))
                   IN
                   IF ~cast_res.ok
                   THEN cast_res
                   ELSE LET cast_op == Head(cast_res.value) IN
                        Ok(<<cast_op,
                             MkOperation(
                                 AddName,
                                 <<a, cast_op.output>>,
                                 MkColumn(UnwrapOr(nm, FormatBinary(AddName, a.name, b.name)),
                                          Into(a_type)),
                                 ExprScalar("Add"))>>)
              ELSE Ok(<<MkOperation(
                            AddName,
                            ins,
                            MkColumn(UnwrapOr(nm, FormatBinary(AddName, a.name, b.name)),
                                     Into(a_type)),
                            ExprScalar("Add"))>>)

(***************************************************************************)
(* SubtractOperation                                                       *)
(***************************************************************************)
SubtractName == "subtract"

\* SubtractTransform that casts the second input even when the types agree
SubtractTransformAlwaysCasts(ins, nm, tt) ==
    IF Len(ins) # 2
    THEN Err(ComputeError("Subtract operation expects 2 inputs"))
    ELSE LET a == ins[1]
             b == ins[2]
         IN
         IF a.column_type.tag = "Array" \/ b.column_type.tag = "Array"
         THEN Err(ComputeError("Subtract operation only works on scalar columns"))
         ELSE LET a_type == a.column_type.dtype
                  b_type == b.column_type.dtype
              IN
              IF TRUE
              THEN LET cast_res == CastTransform(<<b>>, Some(b.name), Some(a_type))
                   IN
                   IF ~cast_res.ok
                   THEN cast_res
                   ELSE LET cast_op == Head(cast_res.value) IN
                        Ok(<<cast_op,
                             MkOperation(
                                 SubtractName,
                                 <<a, cast_op.output>>,
                                 MkColumn(UnwrapOr(nm,
                                              FormatBinary(SubtractName, a.name, b.name)),
                                          Into(a_type)),
                                 ExprScalar("Add"))>>)
              ELSE Ok(<<MkOperation(
                            SubtractName,
                            ins,
                            MkColumn(UnwrapOr(nm,
                                         FormatBinary(SubtractName, a.name, b.name)),
                                     Scalar(a_type)),
                            ExprScalar("Subtract"))>>)

\* SubtractTransform that hands the to_type hint to the cast
SubtractTransformHonoursHint(ins, nm, tt) ==
    IF Len(ins) # 2
    THEN Err(ComputeError("Subtract operation expects 2 inputs"))
    ELSE LET a == ins[1]
             b == ins[2]
         IN
         IF a.column_type.tag = "Array" \/ b.column_type.tag = "Array"
         THEN Err(ComputeError("Subtract operation only works on scalar columns"))
         ELSE LET a_type == a.column_type.dtype
                  b_type == b.column_type.dtype
              IN
              IF a_type # b_type
              THEN LET cast_res == CastTransform(<<b>>, Some(b.name), Some(UnwrapOr(tt, a_type)))
                   IN
                   IF ~cast_res.ok
                   THEN cast_res
                   ELSE LET cast_op == Head(cast_res.value) IN
                        Ok(<<cast_op,
                             MkOperation(
                                 SubtractName,
                                 <<a, cast_op.output>>,
                                 MkColumn(UnwrapOr(nm,
                                              FormatBinary(SubtractName, a.name, b.name)),
                                          Into(a_type)),
                                 ExprScalar("Add"))>>)
              ELSE Ok(<<MkOperation(
                            SubtractName,
                            ins,
                            MkColumn(UnwrapOr(nm,
                                         FormatBinary(SubtractName, a.name, b.name)),
                                     Scalar(a_type)),
                            ExprScalar("Subtract"))>>)

SubtractTransform(ins, nm, tt) ==
    IF Len(ins) # 2
    THEN Err(ComputeError("Subtract operation expects 2 inputs"))
    ELSE LET a == ins[1]
             b == ins[2]
         IN
         IF a.column_type.tag = "Array" \/ b.column_type.tag = "Array"
         THEN Err(ComputeError("Subtract operation only works on scalar columns"))
         ELSE LET a_type == a.column_type.dtype
                  b_type == b.column_type.dtype
              IN
              IF a_type # b_type
              THEN LET cast_res == CastTransform(<<b>>, Some(b.name), Some(a_type))
                   IN
                   IF ~cast_res.ok
                   THEN cast_res
                   ELSE LET cast_op == Head(cast_res.value) IN
                        Ok(<<cast_op,
                             MkOperation(
                                 SubtractName,
                                 <<a, cast_op.output>>,
                                 MkColumn(UnwrapOr(nm,
                                              FormatBinary(SubtractName, a.name, b.name)),
                                          Into(a_type)),
                                 ExprScalar("Add"))>>)
              ELSE Ok(<<MkOperation(
                            SubtractName,
                            ins,
                            MkColumn(UnwrapOr(nm,
                                         FormatBinary(SubtractName, a.name, b.name)),
                                     Scalar(a_type)),
                            ExprScalar("Subtract"))>>)

(***************************************************************************)
(* One transform call on arbitrary arguments                               *)
(***************************************************************************)
SeqsUpTo(S, n) == UNION {[1..k -> S] : k \in 0..n}

NoResult == Err([kind |-> "NotCalled", msg |-> ""])

\* values of the variables a specification does not exercise
IdleTransform ==
    /\ inputs = <<>>
    /\ name = None
    /\ to_type = None
    /\ op = "none"
    /\ result = NoResult
IdleGraph ==
    /\ graph = <<>>
    /\ last = "none"
IdleReader ==
    /\ source = <<"None">>
    /\ backend = <<"none">>
    /\ outcome = [kind |-> "NotCalled"]
IdleCsv ==
    /\ ds = [projection |-> <<>>, limit |-> None]
    /\ call = [method |-> "none"]
    /\ callOutcome = "NotCalled"

Init ==
    /\ inputs \in SeqsUpTo(Column, MaxInputs)
    /\ name \in Option(OutputNames)
    /\ to_type \in Option(DataType)
    /\ op = "none"
    /\ result = NoResult
    /\ IdleGraph /\ IdleReader /\ IdleCsv

Add ==
    /\ op = "none"
    /\ op' = AddName
    /\ result' = AddTransform(inputs, name, to_type)
    /\ UNCHANGED <<inputs, name, to_type, graphVars, readerVars, csvVars>>

Subtract ==
    /\ op = "none"
    /\ op' = SubtractName
    /\ result' = SubtractTransform(inputs, name, to_type)
    /\ UNCHANGED <<inputs, name, to_type, graphVars, readerVars, csvVars>>

Cast ==
    /\ op = "none"
    /\ op' = CastName
    /\ result' = CastTransform(inputs, name, to_type)
    /\ UNCHANGED <<inputs, name, to_type, graphVars, readerVars, csvVars>>

Next == Add \/ Subtract \/ Cast

Spec == Init /\ [][Next]_vars

(***************************************************************************)
(* Properties of a single transform call (specification Spec)              *)
(***************************************************************************)
ArithNames == {AddName, SubtractName}
Range(f) == {f[i] : i \in DOMAIN f}

IsScalar(c) == c.column_type.tag = "Scalar"
IsArray(c)  == c.column_type.tag = "Array"

\* the call under observation took two Scalar columns
TwoScalars == Len(inputs) = 2 /\ IsScalar(inputs[1]) /\ IsScalar(inputs[2])
Mismatched == TwoScalars /\ inputs[1].column_type.dtype # inputs[2].column_type.dtype
Matched    == TwoScalars /\ inputs[1].column_type.dtype = inputs[2].column_type.dtype

ArityError(o) ==
    IF o = AddName THEN ComputeError("Add operation expects 2 inputs")
    ELSE IF o = SubtractName THEN ComputeError("Subtract operation expects 2 inputs")
    ELSE ComputeError("Cast operation expects 1 input")
ShapeError(o) ==
    IF o = AddName THEN ComputeError("Add operation only works on scalar columns")
    ELSE IF o = SubtractName
         THEN ComputeError("Subtract operation only works on scalar columns")
    ELSE ComputeError("Cast operation is currently only supported on scalar columns")
MissingArgumentError ==
    InvalidArgumentError("Cast requires a target output datatype")
TagOf(o) == IF o = AddName THEN ExprScalar("Add") ELSE ExprScalar("Subtract")

\* C1: Add/Subtract on two Scalar columns of differing inner types return
\* exactly <<cast node, arithmetic node>>: the cast is named "cast", tagged
\* Cast, takes only b and yields Scalar(a's type); the arithmetic node takes
\* <<a, cast output>> and yields Scalar(a's type); the order is topological.
C1_CastThenArith ==
    (op \in ArithNames /\ Mismatched) =>
        /\ result.ok
        /\ Len(result.value) = 2
        /\ LET a == inputs[1]
               b == inputs[2]
               c == result.value[1]
               n == result.value[2]
           IN /\ c.name = "cast"
              /\ c.expression = ExprCast
              /\ c.inputs = <<b>>
              /\ c.output.column_type = Scalar(a.column_type.dtype)
              /\ n.name = op
              /\ n.expression # ExprCast
              /\ n.inputs = <<a, c.output>>
              /\ n.output.column_type = Scalar(a.column_type.dtype)
              /\ \A i \in DOMAIN n.inputs :
                    n.inputs[i] \in Range(inputs) \/ n.inputs[i] = c.output

C1_Witness ==
    /\ op = SubtractName /\ Mismatched
    /\ IsSome(name) /\ IsSome(to_type)
    /\ result.ok /\ Len(result.value) = 2

\* C2: Add/Subtract on two Scalar columns of equal inner type return exactly
\* one node, not a Cast, whose inputs are the given columns in order and
\* whose output type is Scalar of the shared type.
C2_SingleNode ==
    (op \in ArithNames /\ Matched) =>
        /\ result.ok
        /\ Len(result.value) = 1
        /\ LET n == result.value[1]
           IN /\ n.name = op
              /\ n.expression # ExprCast
              /\ n.inputs = inputs
              /\ n.output.column_type = Scalar(inputs[1].column_type.dtype)

C2_Witness ==
    /\ op = SubtractName /\ Matched
    /\ result.ok /\ Len(result.value) = 1

\* C3: the arithmetic node (the last node returned) of Add carries
\* Scalar(Add) and that of Subtract carries Scalar(Subtract), on the
\* matched-type path and on the mismatched-type path alike.
C3_SameTag ==
    (op \in ArithNames /\ result.ok) =>
        result.value[Len(result.value)].expression = TagOf(op)

\* C4: Add/Subtract fail exactly when the input count is not 2 or an input
\* is Array: the arity error for any count but 2, the shape error for two
\* inputs with an Array among them, success for two Scalars; an error
\* carries no node.
C4_ErrorsExactly ==
    op \in ArithNames =>
        /\ result.ok <=> TwoScalars
        /\ Len(inputs) # 2 => result = Err(ArityError(op))
        /\ (Len(inputs) = 2 /\ (IsArray(inputs[1]) \/ IsArray(inputs[2])))
              => result = Err(ShapeError(op))
        /\ ~result.ok => "value" \notin DOMAIN result

C4_Witness ==
    /\ op = AddName /\ Len(inputs) = 2
    /\ IsScalar(inputs[1]) /\ IsArray(inputs[2])
    /\ inputs[1].column_type.dtype # inputs[2].column_type.dtype
    /\ result = Err(ShapeError(AddName))

\* C5: Cast fails with the arity error for any input count but 1, with the
\* missing-argument error for one input and no target type, with the shape
\* error for one Array input and a target type; for one Scalar input and
\* target T it returns exactly one node tagged Cast of output type Scalar(T).
C5_CastContract ==
    op = CastName =>
        /\ Len(inputs) # 1 => result = Err(ArityError(CastName))
        /\ (Len(inputs) = 1 /\ ~IsSome(to_type))
              => result = Err(MissingArgumentError)
        /\ (Len(inputs) = 1 /\ IsSome(to_type) /\ IsArray(inputs[1]))
              => result = Err(ShapeError(CastName))
        /\ (Len(inputs) = 1 /\ IsSome(to_type) /\ IsScalar(inputs[1]))
              => /\ result.ok
                 /\ Len(result.value) = 1
                 /\ result.value[1].expression = ExprCast
                 /\ result.value[1].output.column_type = Scalar(Unwrap(to_type))

C5_Witness ==
    /\ op = CastName /\ Len(inputs) = 1 /\ IsScalar(inputs[1])
    /\ IsSome(to_type) /\ Unwrap(to_type) # inputs[1].column_type.dtype
    /\ result.ok /\ Len(result.value) = 1

\* C6 as stated: with no explicit output name and two Scalar inputs n0, n1
\* of differing types, the arithmetic output is named "<op>(n0, n1)" and
\* the cast output is named "cast(n1 as datatype)".
C6_DefaultNames ==
    (op \in ArithNames /\ Mismatched /\ name = None) =>
        /\ result.ok
        /\ Len(result.value) = 2
        /\ result.value[2].output.name =
               FormatBinary(op, inputs[1].name, inputs[2].name)
        /\ result.value[2].output.column_type = Scalar(inputs[1].column_type.dtype)
        /\ result.value[1].output.name = FormatCast("cast", inputs[2].name)

\* C6 amended: with no explicit output name and two Scalar inputs n0, n1 of
\* differing types, the arithmetic output is named "<op>(n0, n1)" with
\* a's type, and the cast output is named n1, the second input's own name.
C6_CastKeepsInputName ==
    (op \in ArithNames /\ Mismatched /\ name = None) =>
        /\ result.ok
        /\ Len(result.value) = 2
        /\ result.value[2].output.name =
               FormatBinary(op, inputs[1].name, inputs[2].name)
        /\ result.value[2].output.column_type = Scalar(inputs[1].column_type.dtype)
        /\ result.value[1].output.name = inputs[2].name

C6_Witness ==
    /\ op = AddName /\ name = None /\ to_type = None
    /\ inputs = <<MkColumn("a", Scalar("Int64")), MkColumn("b", Scalar("Int32"))>>
    /\ result.ok
    /\ result.value[1].output = MkColumn("b", Scalar("Int64"))
    /\ result.value[2].output = MkColumn("add(a, b)", Scalar("Int64"))

\* the transform the observed call ran, applied to another hint
Rerun(tt) ==
    IF op = AddName THEN AddTransform(inputs, name, tt)
    ELSE SubtractTransform(inputs, name, tt)

\* C9: the to_type hint of Add/Subtract is ignored: the result is the one
\* every other hint (absent included) gives, and an inserted cast targets
\* the first input's inner type.
C9_HintIgnored ==
    op \in ArithNames =>
        /\ \A tt \in Option(DataType) : Rerun(tt) = result
        /\ (result.ok /\ Len(result.value) = 2) =>
               result.value[1].output.column_type =
                   Scalar(inputs[1].column_type.dtype)

C9_Witness ==
    /\ op = SubtractName /\ Mismatched
    /\ IsSome(to_type) /\ Unwrap(to_type) # inputs[1].column_type.dtype
    /\ result.ok /\ Len(result.value) = 2
    /\ result.value[1].expression = ExprCast

(***************************************************************************)
(* A caller building an operation graph from successive transform calls    *)
(***************************************************************************)
\* columns of the resolved Dataset the caller starts from
BaseColumns ==
    { MkColumn("a", Scalar(TypeNames[1])),
      MkColumn("b", Scalar(TypeNames[2])),
      MkColumn("b", Array(TypeNames[1])) }

\* columns a call may consume: base columns and outputs of earlier nodes
Available == BaseColumns \cup {graph[i].output : i \in DOMAIN graph}

\* argument lists the caller tries: too few, right and too many for Cast
ArgLists == SeqsUpTo(Available, 2)

\* the caller keeps the returned nodes on success and nothing on error;
\* it stops calling once the graph holds MaxNodes nodes
Extend(r) ==
    /\ Len(graph) < MaxNodes
    /\ IF r.ok
       THEN /\ Len(graph) + Len(r.value) <= MaxNodes
            /\ graph' = graph \o r.value
            /\ last' = "ok"
       ELSE /\ graph' = graph
            /\ last' = "err"
    /\ UNCHANGED <<transformVars, readerVars, csvVars>>

InitGraph == IdleTransform /\ IdleGraph /\ IdleReader /\ IdleCsv

GraphAdd ==
    \E ins \in ArgLists, nm \in Option(OutputNames), tt \in Option(DataType) :
        Extend(AddTransform(ins, nm, tt))

GraphSubtract ==
    \E ins \in ArgLists, nm \in Option(OutputNames), tt \in Option(DataType) :
        Extend(SubtractTransform(ins, nm, tt))

GraphCast ==
    \E ins \in ArgLists, nm \in Option(OutputNames), tt \in Option(DataType) :
        Extend(CastTransform(ins, nm, tt))

NextGraph == GraphAdd \/ GraphSubtract \/ GraphCast

SpecGraph == InitGraph /\ [][NextGraph]_vars

\* C10: in a graph built from successful Add, Subtract and Cast calls over
\* base columns and earlier outputs, every arithmetic node has exactly two
\* Scalar inputs of one inner type and a Scalar output of that type, every
\* Cast node has exactly one Scalar input and a Scalar output, and no node
\* has an Array input or output.
C10_TypeConsistent ==
    \A i \in DOMAIN graph :
        LET n == graph[i] IN
        /\ n.expression # ExprCast =>
              /\ Len(n.inputs) = 2
              /\ IsScalar(n.inputs[1]) /\ IsScalar(n.inputs[2])
              /\ n.inputs[1].column_type.dtype = n.inputs[2].column_type.dtype
              /\ n.output.column_type = Scalar(n.inputs[1].column_type.dtype)
        /\ n.expression = ExprCast =>
              /\ Len(n.inputs) = 1
              /\ IsScalar(n.inputs[1])
              /\ IsScalar(n.output)
        /\ \A k \in DOMAIN n.inputs : ~IsArray(n.inputs[k])
        /\ ~IsArray(n.output)

\* a cast node feeding the arithmetic node after it
C10_Witness ==
    /\ Len(graph) >= 2
    /\ graph[1].expression = ExprCast
    /\ graph[2].expression # ExprCast
    /\ graph[1].output \in Range(graph[2].inputs)
    /\ graph[1].inputs[1].column_type.dtype # graph[1].output.column_type.dtype

(***************************************************************************)
(* Reader::get_dataset                                                     *)
(***************************************************************************)
Paths  == {"data/x", "data/y"}
Tables == {"t1", "t2"}
SqlDatabase == {"Postgres", "MsSql", "MySql"}

CsvReadOptions ==
    [has_headers : BOOLEAN, projection : Option({<<0>>})]

DataSourceType ==
    {<<"Csv", p, o>> : p \in Paths, o \in CsvReadOptions}
    \cup {<<"Json", p>> : p \in Paths}
    \cup {<<"Parquet", p>> : p \in Paths}
    \cup {<<"Arrow", p>> : p \in Paths}
    \cup {<<"Sql", t, [db |-> d]>> : t \in Tables, d \in SqlDatabase}

\* what the reader library reports for the source: the open fails, the
\* reader cannot be built, or a schema (a sequence of fields) is read
Field(n, t) == [name |-> n, data_type |-> t]
Schemas == { <<>>, <<Field("id", "Int64"), Field("name", "Utf8")>> }
Backends == {<<"io_error">>, <<"reader_error">>} \cup {<<"schema", s>> : s \in Schemas}

\* impl From<Field> for Column, used as `f.clone().into()`
FieldInto(f) == MkColumn(f.name, Into(f.data_type))

\* schema.fields().iter().map(|f| f.clone().into()).collect()
Columns(schema) == [i \in DOMAIN schema |-> FieldInto(schema[i])]

DatasetOk(n, cols) == [kind |-> "Ok", dataset |-> [name |-> n, columns |-> cols]]
DatasetErr(e)      == [kind |-> "Err", error |-> e]
\* unimplemented!(msg) and todo!() unwind instead of returning
Panic(msg)         == [kind |-> "Panic", msg |-> msg]

\* the arms that open something and read its schema: `?` returns the error
Resolve(n, be) ==
    IF be[1] \in {"io_error", "reader_error"}
    THEN DatasetErr(be[1])
    ELSE DatasetOk(n, Columns(be[2]))

GetDataset(src, be) ==
    CASE src[1] = "Csv"     -> Resolve("csv_source", be)
      [] src[1] = "Json"    ->
            Panic("not implemented: JSON data source evaluation not yet implemented")
      [] src[1] = "Parquet" -> Resolve("parquet_file_source", be)
      [] src[1] = "Arrow"   -> Resolve("ipc_file_source", be)
      [] src[1] = "Sql"     ->
            CASE src[3].db = "Postgres" -> Resolve(src[2], be)
              [] src[3].db = "MsSql"    ->
                    Panic("not implemented: MSSQL data source not yet implemented")
              [] src[3].db = "MySql"    ->
                    Panic("not implemented: MySQL data source not yet implemented")

InitReader ==
    /\ source \in DataSourceType
    /\ backend \in Backends
    /\ outcome = [kind |-> "NotCalled"]
    /\ IdleTransform /\ IdleGraph /\ IdleCsv

get_dataset ==
    /\ outcome.kind = "NotCalled"
    /\ outcome' = GetDataset(source, backend)
    /\ UNCHANGED <<source, backend, transformVars, graphVars, csvVars>>

NextReader == get_dataset

SpecReader == InitReader /\ [][NextReader]_vars

Unimplemented(src) ==
    \/ src[1] = "Json"
    \/ src[1] = "Sql" /\ src[3].db \in {"MsSql", "MySql"}

\* C7: get_dataset on a Json source or a MySql/MsSql Sql source returns an
\* error result to its caller: never an Ok Dataset, and it does return.
C7_ReturnsError ==
    (outcome.kind # "NotCalled" /\ Unimplemented(source)) => outcome.kind = "Err"

(***************************************************************************)
(* CsvDataSource                                                           *)
(***************************************************************************)
BooleanFilter == {"id > 1", "name = x"}
SortCriteria  == {<<"id", "asc">>, <<"name", "desc">>}

supports_projection == TRUE
supports_filtering  == FALSE
supports_sorting    == FALSE
supports_limit      == TRUE

\* the query state among the fields of struct CsvDataSource
CsvState == [projection : SeqsUpTo(ColumnNames, 2), limit : Option(0..MaxLimit)]

InitCsv ==
    /\ ds \in CsvState
    /\ call = [method |-> "none"]
    /\ callOutcome = "NotCalled"
    /\ IdleTransform /\ IdleGraph /\ IdleReader

\* every pushdown method body is todo!(): it unwinds before touching self
limit ==
    \E n \in 0..MaxLimit :
        /\ call' = [method |-> "limit", arg |-> n, self |-> ds]
        /\ callOutcome' = "Panic"
        /\ UNCHANGED <<ds, transformVars, graphVars, readerVars>>

filter ==
    \E f \in BooleanFilter :
        /\ call' = [method |-> "filter", arg |-> f, self |-> ds]
        /\ callOutcome' = "Panic"
        /\ UNCHANGED <<ds, transformVars, graphVars, readerVars>>

project ==
    \E cols \in SeqsUpTo(ColumnNames, 2) :
        /\ call' = [method |-> "project", arg |-> cols, self |-> ds]
        /\ callOutcome' = "Panic"
        /\ UNCHANGED <<ds, transformVars, graphVars, readerVars>>

sort ==
    \E criteria \in SeqsUpTo(SortCriteria, 1) :
        /\ call' = [method |-> "sort", arg |-> criteria, self |-> ds]
        /\ callOutcome' = "Panic"
        /\ UNCHANGED <<ds, transformVars, graphVars, readerVars>>

NextCsv == limit \/ filter \/ project \/ sort

SpecCsv == InitCsv /\ [][NextCsv]_vars

\* C8: on a CsvDataSource, after any calls, supports_projection and
\* supports_limit are true and supports_filtering and supports_sorting
\* false; and filter(p) either records p in the query state and returns
\* success, or returns a failure with the state as it was.
C8_FilterContract ==
    /\ supports_projection /\ supports_limit
    /\ ~supports_filtering /\ ~supports_sorting
    /\ call.method = "filter" =>
          \/ /\ callOutcome = "Ok"
             /\ "filter" \in DOMAIN ds
             /\ ds.filter = call.arg
          \/ /\ callOutcome = "Err"
             /\ ds = call.self

====
